---- MODULE Spec2Model ----
(***************************************************************************)
(* Session issuance, session validation and request-time authorization of  *)
(* the nextjs-auth example: the session cookie (createSession,             *)
(* deleteSession, getSession), the edge middleware, and the login / logout *)
(* server actions.                                                         *)
(*                                                                         *)
(* JavaScript values are tagged records.  A string that holds the ISO text *)
(* of an instant t is [type |-> "string", iso |-> t]; any other string is  *)
(* [type |-> "string", str |-> s].  A text s is the sequence of its pieces: *)
(* each piece is one of the characters "@", ".", " ", "/" or a run of      *)
(* other characters, so String.startsWith is sequence prefix and a regular *)
(* expression over character classes reads the pieces.                     *)
(***************************************************************************)
EXTENDS Integers, Sequences, FiniteSets, TLC

VARIABLES
    now,        \* the clock, in milliseconds since the epoch (Date.now())
    cookie,     \* cookie[c]: the "session" cookie of browser context c
    loginCall,  \* loginCall[c]: the login server action running for c
    last,       \* the step just taken and what it returned
    loggedOut,  \* loggedOut[c]: the cookie the last logout of c deleted and
                \* whether the client has edited the jar since, until a
                \* createSession writes the cookie of c
    counter,    \* the Counter component: its state and the clicks so far
    profile     \* the UserProfile component: its state and its fetches

vars == <<now, cookie, loginCall, last, loggedOut, counter, profile>>

\* The state of the two client components.
ui == <<counter, profile>>

(***************************************************************************)
(* Bounds of the model.                                                    *)
(***************************************************************************)
\* The clock is read within MaxSkew milliseconds of the epoch and of the
\* instant one session duration later.
MaxSkew == 1

\* The browser follows at most MaxHops redirects, one after the other.
MaxHops == 4

\* Browser contexts; the contexts of Active take steps in Spec.
Contexts == {"A", "B"}
Active == {"A"}

(***************************************************************************)
(* JavaScript values.                                                      *)
(***************************************************************************)
Undefined == [type |-> "undefined"]
Null == [type |-> "null"]
Num(n) == [type |-> "number", num |-> n]
Str(s) == [type |-> "string", str |-> s]
IsoString(t) == [type |-> "string", iso |-> t]
EmptyArray == [type |-> "array"]
Obj(userId, email, role, expiresAt) ==
    [type |-> "object", userId |-> userId, email |-> email,
     role |-> role, expiresAt |-> expiresAt]

\* NaN, the time value of an Invalid Date.
NaN == [nan |-> TRUE]
Time(t) == [nan |-> FALSE, ms |-> t]

\* ToBoolean: what `if (v)` and `!v` test.
Truthy(v) ==
    CASE v.type = "undefined" -> FALSE
      [] v.type = "null" -> FALSE
      [] v.type = "number" -> v.num # 0
      [] v.type = "string" -> v # Str(<<>>)
      [] OTHER -> TRUE

\* v.f for a value v that is neither null nor undefined: a field an object
\* lacks, and any field of a number, a string or an array, is undefined.
Field(v, f) ==
    IF v.type = "object"
    THEN CASE f = "userId" -> v.userId
           [] f = "email" -> v.email
           [] f = "role" -> v.role
           [] f = "expiresAt" -> v.expiresAt
    ELSE Undefined

\* v?.f
OptField(v, f) ==
    IF v.type \in {"null", "undefined"} THEN Undefined ELSE Field(v, f)

\* new Date(v).getTime(): an ISO string parses to its instant, a number is
\* the instant itself, undefined and the other strings give an Invalid Date.
NewDate(v) ==
    CASE v.type = "number" -> Time(v.num)
      [] v.type = "string" /\ "iso" \in DOMAIN v -> Time(v.iso)
      [] v.type = "null" -> Time(0)
      [] OTHER -> NaN

\* a < b on two Dates: false when either is an Invalid Date.
DateLess(a, b) == ~a.nan /\ ~b.nan /\ a.ms < b.ms

(***************************************************************************)
(* The cookie jar.  A cookie is absent, or holds a text: the empty text, a *)
(* text that is not JSON, or the JSON text of a value.                     *)
(***************************************************************************)
NoCookie == [kind |-> "absent"]
EmptyText == [kind |-> "empty"]
NotJson == [kind |-> "garbage"]
JsonText(v) == [kind |-> "json", val |-> v]

\* JSON.stringify(v); a field whose value is undefined is left out, which
\* reads back as undefined.
JSONstringify(v) == JsonText(v)

\* `if (cookie)` / `!cookie`: an absent cookie and the empty text are falsy.
CookiePresent(c) == c.kind \notin {"absent", "empty"}

\* JSON.parse(text): the value, or a SyntaxError.
JSONparse(c) ==
    IF c.kind = "json" THEN [threw |-> FALSE, val |-> c.val]
    ELSE [threw |-> TRUE]

(***************************************************************************)
(* Routes and the edge middleware.                                         *)
(***************************************************************************)
RootPath == <<"/">>
LoginPath == <<"/", "login">>
DashboardPath == <<"/", "dashboard">>
AdminPath == <<"/", "admin">>

protectedRoutes == {DashboardPath, AdminPath}
publicRoutes == {LoginPath, RootPath}

\* The receiver and the argument of startsWith exchanged.
StartsWithSwapped(s, prefix) ==
    Len(s) <= Len(prefix) /\ SubSeq(prefix, 1, Len(s)) = s

\* String.prototype.startsWith
StartsWith(s, prefix) ==
    Len(prefix) <= Len(s) /\ SubSeq(s, 1, Len(prefix)) = prefix
\* What middleware returns.
ResponseNext == [kind |-> "next"]
RedirectTo(path) == [kind |-> "redirect", to |-> path, redirect |-> <<>>]
RedirectToLogin(from) ==
    [kind |-> "redirect", to |-> LoginPath, redirect |-> from]

\* The expiry comparison of middleware turned round.
MiddlewareSessionExpiryInverted(c, t) ==
    IF ~CookiePresent(c) THEN Null
    ELSE LET parsed == JSONparse(c) IN
         IF parsed.threw THEN Null
         ELSE IF parsed.val.type = "null" THEN Null
         ELSE IF Truthy(Field(parsed.val, "expiresAt"))
                 /\ DateLess(Time(t), NewDate(Field(parsed.val, "expiresAt")))
              THEN Null
              ELSE parsed.val

\* The session middleware decodes from the cookie: null, or the parsed value
\* unless its expiresAt is truthy and earlier than the clock.  Reading
\* session.expiresAt of a parsed null throws inside the try block.
MiddlewareSession(c, t) ==
    IF ~CookiePresent(c) THEN Null
    ELSE LET parsed == JSONparse(c) IN
         IF parsed.threw THEN Null
         ELSE IF parsed.val.type = "null" THEN Null
         ELSE IF Truthy(Field(parsed.val, "expiresAt"))
                 /\ DateLess(NewDate(Field(parsed.val, "expiresAt")), Time(t))
              THEN Null
              ELSE parsed.val

\* middleware with the admin check ahead of the session check.
middlewareRoleCheckFirst(path, c, t) ==
    LET isProtectedRoute == \E route \in protectedRoutes : StartsWith(path, route)
        isPublicRoute == path \in publicRoutes
        session == MiddlewareSession(c, t)
    IN  IF StartsWith(path, AdminPath)
           /\ OptField(session, "role") # Str(<<"admin">>)
        THEN RedirectTo(DashboardPath)
        ELSE IF isProtectedRoute /\ ~Truthy(OptField(session, "userId"))
        THEN RedirectToLogin(path)
        ELSE IF isPublicRoute /\ path = LoginPath
                /\ Truthy(OptField(session, "userId"))
        THEN RedirectTo(DashboardPath)
        ELSE ResponseNext

\* middleware without the admin check.
middlewareNoRoleCheck(path, c, t) ==
    LET isProtectedRoute == \E route \in protectedRoutes : StartsWith(path, route)
        isPublicRoute == path \in publicRoutes
        session == MiddlewareSession(c, t)
    IN  IF isProtectedRoute /\ ~Truthy(OptField(session, "userId"))
        THEN RedirectToLogin(path)
        ELSE IF isPublicRoute /\ path = LoginPath
                /\ Truthy(OptField(session, "userId"))
        THEN RedirectTo(DashboardPath)
        ELSE ResponseNext

\* middleware that lets a signed-in user stay on the login page.
\* middleware without its try block: what JSON.parse or the read of
\* expiresAt throws escapes.
middlewareNoTry(path, c, t) ==
    IF CookiePresent(c)
       /\ (JSONparse(c).threw \/ JSONparse(c).val.type = "null")
    THEN [status |-> 500]
    ELSE LET isProtectedRoute ==
                 \E route \in protectedRoutes : StartsWith(path, route)
             session == MiddlewareSession(c, t)
         IN  IF isProtectedRoute /\ ~Truthy(OptField(session, "userId"))
             THEN RedirectToLogin(path)
             ELSE IF path = LoginPath /\ Truthy(OptField(session, "userId"))
             THEN RedirectTo(DashboardPath)
             ELSE IF StartsWith(path, AdminPath)
                     /\ OptField(session, "role") # Str(<<"admin">>)
             THEN RedirectTo(DashboardPath)
             ELSE ResponseNext

middlewareNoLoginRedirect(path, c, t) ==
    LET isProtectedRoute == \E route \in protectedRoutes : StartsWith(path, route)
        session == MiddlewareSession(c, t)
    IN  IF isProtectedRoute /\ ~Truthy(OptField(session, "userId"))
        THEN RedirectToLogin(path)
        ELSE IF StartsWith(path, AdminPath)
                /\ OptField(session, "role") # Str(<<"admin">>)
        THEN RedirectTo(DashboardPath)
        ELSE ResponseNext

middleware(path, c, t) ==
    LET isProtectedRoute == \E route \in protectedRoutes : StartsWith(path, route)
        isPublicRoute == path \in publicRoutes
        session == MiddlewareSession(c, t)
    IN  IF isProtectedRoute /\ ~Truthy(OptField(session, "userId"))
        THEN RedirectToLogin(path)
        ELSE IF isPublicRoute /\ path = LoginPath
                /\ Truthy(OptField(session, "userId"))
        THEN RedirectTo(DashboardPath)
        ELSE IF StartsWith(path, AdminPath)
                /\ OptField(session, "role") # Str(<<"admin">>)
        THEN RedirectTo(DashboardPath)
        ELSE ResponseNext

(***************************************************************************)
(* The session store: getSession, createSession, deleteSession.            *)
(***************************************************************************)
\* 7 * 24 * 60 * 60 * 1000 milliseconds.
SessionDuration == 604800000

Returned(v) == [threw |-> FALSE, val |-> v]
Threw == [threw |-> TRUE]

\* getSession without its try block: the SyntaxError of JSON.parse escapes.
getSessionNoTry(c, t) ==
    IF ~CookiePresent(c) THEN Returned(Null)
    ELSE LET parsed == JSONparse(c) IN
         IF parsed.threw THEN Threw
         ELSE IF parsed.val.type = "null" THEN Threw
         ELSE IF DateLess(NewDate(Field(parsed.val, "expiresAt")), Time(t))
              THEN Returned(Null)
              ELSE Returned(parsed.val)

\* getSession without the expiry check.
getSessionNoExpiry(c, t) ==
    IF ~CookiePresent(c) THEN Returned(Null)
    ELSE LET parsed == JSONparse(c) IN
         IF parsed.threw THEN Returned(Null)
         ELSE IF parsed.val.type = "null" THEN Returned(Null)
         ELSE Returned(parsed.val)

\* getSession: null for a falsy cookie, for a text JSON.parse rejects, for a
\* parsed null (reading its expiresAt throws inside the try block) and for a
\* value whose expiresAt is a date earlier than the clock; otherwise the
\* parsed value as it is.
getSession(c, t) ==
    IF ~CookiePresent(c) THEN Returned(Null)
    ELSE LET parsed == JSONparse(c) IN
         IF parsed.threw THEN Returned(Null)
         ELSE IF parsed.val.type = "null" THEN Returned(Null)
         ELSE IF DateLess(NewDate(Field(parsed.val, "expiresAt")), Time(t))
              THEN Returned(Null)
              ELSE Returned(parsed.val)

\* createSession with its duration counted in seconds.
createSessionInSeconds(userId, email, role, t) ==
    JSONstringify(Obj(userId, email, role, IsoString(t + 7 * 24 * 60 * 60)))

\* The cookie createSession sets at clock t.
createSession(userId, email, role, t) ==
    JSONstringify(Obj(userId, email, role, IsoString(t + SessionDuration)))

\* deleteSession that leaves the cookie in the jar.
deleteSessionKeeps(c) == c

\* The cookie after deleteSession.
deleteSession(c) == NoCookie

(***************************************************************************)
(* The login and logout server actions.                                    *)
(***************************************************************************)
\* A field of the submitted form: formData.get(name) is null for a field the
\* form lacks, its text otherwise.
NoField == [present |-> FALSE, text |-> <<>>]
FieldText(s) == [present |-> TRUE, text |-> s]

\* The character class \s.
IsSpace(piece) == piece = " "

\* /^[^\s@]+@[^\s@]+\.[^\s@]+$/.test(email)
isValidEmail(email) ==
    \E i \in 1..Len(email) : \E j \in 1..Len(email) :
        /\ email[i] = "@"
        /\ email[j] = "."
        /\ 1 < i
        /\ i + 1 < j
        /\ j < Len(email)
        /\ \A k \in 1..Len(email) :
              k # i => ~IsSpace(email[k]) /\ email[k] # "@"

\* String.prototype.trim
RECURSIVE TrimStart(_)
TrimStart(s) ==
    IF s # <<>> /\ IsSpace(Head(s)) THEN TrimStart(Tail(s)) ELSE s

RECURSIVE TrimEnd(_)
TrimEnd(s) ==
    IF s # <<>> /\ IsSpace(s[Len(s)])
    THEN TrimEnd(SubSeq(s, 1, Len(s) - 1))
    ELSE s

Trim(s) == TrimEnd(TrimStart(s))

\* !email || !isValidEmail(email)
EmailRejected(f) == ~f.present \/ f.text = <<>> \/ ~isValidEmail(f.text)

\* !password || password.trim().length === 0
PasswordRejected(f) == ~f.present \/ f.text = <<>> \/ Len(Trim(f.text)) = 0

\* The errors object login fills: its keys are the rejected fields.
ErrorText(key) ==
    IF key = "email" THEN "Please enter a valid email address."
    ELSE "Password is required."

\* The checks of login written as else-if: the password is looked at only
\* when the email passed.
ValidationErrorsShortCircuit(form) ==
    [key \in {k \in {"email", "password"} :
                 \/ k = "email" /\ EmailRejected(form.email)
                 \/ /\ k = "password"
                    /\ ~EmailRejected(form.email)
                    /\ PasswordRejected(form.password)}
        |-> ErrorText(key)]

ValidationErrors(form) ==
    [key \in {k \in {"email", "password"} :
                 \/ k = "email" /\ EmailRejected(form.email)
                 \/ k = "password" /\ PasswordRejected(form.password)}
        |-> ErrorText(key)]

\* The early return of login taken for an email error only.
ValidationFailsEmailOnly(errors) == "email" \in DOMAIN errors

\* Object.keys(errors).length > 0
ValidationFails(errors) == DOMAIN errors # {}

\* What login returns.
ErrorsResult(errors) == [kind |-> "errors", errors |-> errors]
MessageResult(text) == [kind |-> "message", message |-> text]

InvalidCredentialsMessage == "Invalid email or password. Please try again."

\* The profile failure reported in the words of the credential failure.
ProfileFailedAsCredentials == "Invalid email or password. Please try again."

ProfileFailedMessage == "Failed to fetch user profile."
LoginErrorMessage == "An error occurred during login. Please try again."

\* redirect(path) of next/navigation returns nothing: it throws the
\* NEXT_REDIRECT error that carries the target.
redirect(path) == [threw |-> TRUE, digest |-> "NEXT_REDIRECT", to |-> path]
NetworkError == [threw |-> TRUE, digest |-> "TypeError", to |-> <<>>]

\* A catch block that answers with the message of a refused exchange.
LoginCatchAsCredentials(error) ==
    MessageResult("Invalid email or password. Please try again.")

\* The catch block of login: whatever was thrown in the try block, the
\* NEXT_REDIRECT error included, becomes the generic message.
LoginCatch(error) == MessageResult(LoginErrorMessage)

\* The users of the identity provider, as /auth/profile returns them.
JohnMail == <<"john", "@", "mail", ".", "com">>
AdminMail == <<"admin", "@", "mail", ".", "com">>
Users ==
    { [id |-> 1, email |-> JohnMail, role |-> <<"customer">>,
       password |-> <<"changeme">>],
      [id |-> 2, email |-> AdminMail, role |-> <<"admin">>,
       password |-> <<"admin123">>] }

\* The body of a successful POST /auth/login.
AuthData ==
    [access_token |-> <<"mock-access-token-123">>,
     refresh_token |-> <<"mock-refresh-token-456">>]
NoAuthData == [none |-> TRUE]

\* createSession called with the password of the profile for the email.
CreateSessionArgsWithPassword(user) ==
    <<Num(user.id), Str(user.password), Str(user.role)>>

\* The arguments login passes to createSession.
CreateSessionArgs(user) == <<Num(user.id), Str(user.email), Str(user.role)>>

\* The responses of POST /auth/login and of GET /auth/profile: a success, a
\* non-OK status, or a network failure that rejects fetch.
ExchangeResponses == {"ok", "notok", "error"}
ProfileResponses ==
    {[kind |-> "notok"], [kind |-> "error"]}
        \cup {[kind |-> "ok", user |-> u] : u \in Users}

\* The forms a browser submits.
FormEmails ==
    { NoField, FieldText(<<>>), FieldText(<<"not-an-email">>),
      FieldText(<<"a", " ", "b", "@", "x", ".", "y">>),
      FieldText(JohnMail), FieldText(<<"wrong", "@", "example", ".", "com">>) }
FormPasswords ==
    { NoField, FieldText(<<>>), FieldText(<<" ">>),
      FieldText(<<"changeme">>), FieldText(<<" ", "pw", " ">>) }
Forms == [email : FormEmails, password : FormPasswords]

\* A login call that is not running, and one that starts.
NoUser == [none |-> TRUE]
LoginIdle == [pc |-> "idle"]
LoginStarted(form) ==
    [pc |-> "validate", form |-> form, user |-> NoUser,
     exchangeCalls |-> 0, profileCalls |-> 0,
     createCalls |-> 0, deleteCalls |-> 0,
     exchangeResponse |-> "none", profileResponse |-> "none",
     authData |-> NoAuthData]

\* No logout since createSession last wrote the cookie, and a logout that
\* deleted the cookie text c.
NotLoggedOut == [is |-> FALSE]
LoggedOutFrom(c) == [is |-> TRUE, from |-> c, edited |-> FALSE]

(***************************************************************************)
(* The data access layer: verifySession and requireRole.                   *)
(***************************************************************************)
\* The object verifySession returns for the session it read.
SessionInfo(session) ==
    [type |-> "object", isAuth |-> TRUE,
     userId |-> Field(session, "userId"),
     email |-> Field(session, "email"),
     role |-> Field(session, "role")]

\* verifySession that also asks for an email.
verifySessionNeedsEmail(c, t) ==
    LET read == getSession(c, t) IN
    IF read.threw THEN read
    ELSE IF \/ ~Truthy(OptField(read.val, "userId"))
            \/ ~Truthy(OptField(read.val, "email"))
         THEN redirect(LoginPath)
    ELSE Returned(SessionInfo(read.val))

\* verifySession that returns whatever getSession gave it.
verifySessionNoRedirect(c, t) ==
    LET read == getSession(c, t) IN
    IF read.threw THEN read
    ELSE IF read.val.type = "null" THEN Threw
    ELSE Returned(SessionInfo(read.val))

\* verifySession: getSession, then redirect("/login") for a session that is
\* null or has no truthy userId; the error redirect throws leaves
\* verifySession, so nothing is returned to the caller.
verifySession(c, t) ==
    LET read == getSession(c, t) IN
    IF read.threw THEN read
    ELSE IF ~Truthy(OptField(read.val, "userId")) THEN redirect(LoginPath)
    ELSE Returned(SessionInfo(read.val))

\* Array.prototype.includes on a list of role names.
Includes(list, v) == \E i \in 1..Len(list) : list[i] = v

\* requireRole that looks at the role before the session check.
requireRoleRoleFirst(allowedRoles, c, t) ==
    LET read == getSession(c, t) IN
    IF read.threw THEN read
    ELSE IF ~Includes(allowedRoles, OptField(read.val, "role"))
         THEN redirect(DashboardPath)
         ELSE verifySession(c, t)

\* requireRole that lets every verified session through.
requireRoleNoCheck(allowedRoles, c, t) == verifySession(c, t)

\* requireRole: verifySession, whose redirect leaves requireRole as well,
\* then redirect("/dashboard") for a role the list does not include;
\* otherwise the object verifySession returned.
requireRole(allowedRoles, c, t) ==
    LET session == verifySession(c, t) IN
    IF session.threw THEN session
    ELSE IF ~Includes(allowedRoles, session.val.role)
         THEN redirect(DashboardPath)
         ELSE session

\* The lists of roles pages ask for.
RoleLists ==
    { <<>>, <<Str(<<"admin">>)>>, <<Str(<<"customer">>)>>,
      <<Str(<<"admin">>), Str(<<"editor">>)>>,
      <<Str(<<"customer">>), Str(<<"admin">>)>> }

(***************************************************************************)
(* The pages.  A page renders (Returned) or ends in the redirect one of    *)
(* its calls throws.                                                       *)
(***************************************************************************)
Page(name) == Returned([page |-> name])

\* The login page renders the form and checks nothing.
LoginPage == Page("login")

\* The home page sends a session with a truthy userId to /dashboard.
HomePage(c, t) ==
    LET session == getSession(c, t).val IN
    IF Truthy(OptField(session, "userId")) THEN redirect(DashboardPath)
    ELSE Page("home")

\* The dashboard page begins with verifySession.
DashboardPage(c, t) ==
    IF verifySession(c, t).threw THEN verifySession(c, t)
    ELSE Page("dashboard")

\* The admin page begins with requireRole(['admin']).
AdminPage(c, t) ==
    IF requireRole(<<Str(<<"admin">>)>>, c, t).threw
    THEN requireRole(<<Str(<<"admin">>)>>, c, t)
    ELSE Page("admin")

\* The answer to a request: the redirect of middleware, or else what the
\* page of the path does; a path without a page renders the not-found page.
Serve(path, c, t) ==
    LET edge == middleware(path, c, t) IN
    IF edge # ResponseNext THEN [status |-> "redirect", to |-> edge.to]
    ELSE LET page == CASE path = RootPath -> HomePage(c, t)
                       [] path = LoginPath -> LoginPage
                       [] path = DashboardPath -> DashboardPage(c, t)
                       [] path = AdminPath -> AdminPage(c, t)
                       [] OTHER -> Page("not-found")
         IN  IF page.threw THEN [status |-> "redirect", to |-> page.to]
             ELSE [status |-> "rendered", page |-> page.val.page]

(***************************************************************************)
(* The client components: Counter and UserProfile.                         *)
(***************************************************************************)
\* The variables of the server side.
auth == <<now, cookie, loginCall, last, loggedOut>>

\* The clicks a Counter receives, and the fetches a UserProfile issues.
MaxClicks == 4
MaxFetches == 3

\* Counter: useState(0) and useState([]), and no click yet.
CounterInit == [count |-> 0, history |-> <<>>, clicks |-> <<>>]

\* The closures of a Counter that was rendered once and never again.
RenderedOnce(c) == [count |-> 0, history |-> <<>>]

\* The count and history the closures of the last render hold: React
\* renders again after each click, before the next event is delivered.
Rendered(c) == [count |-> c.count, history |-> c.history]

\* The three handlers, on the count and history of their closure.
increment(count, history) ==
    LET newCount == count + 1 IN
    [count |-> newCount, history |-> Append(history, newCount)]

decrement(count, history) ==
    LET newCount == count - 1 IN
    [count |-> newCount, history |-> Append(history, newCount)]

\* A reset that forgets to clear the history.
resetKeepsHistory(count, history) == [count |-> 0, history |-> history]

reset(count, history) == [count |-> 0, history |-> <<>>]

Buttons == {"increment", "decrement", "reset"}

\* What the Counter shows: "Count: {count}", and the history list when the
\* history is not empty.
CounterView(c) ==
    [count |-> c.count, showsHistory |-> Len(c.history) > 0,
     items |-> c.history]

\* A click on a button of the Counter.
Click(button) ==
    /\ Len(counter.clicks) < MaxClicks
    /\ LET seen == Rendered(counter)
           set == CASE button = "increment" ->
                          increment(seen.count, seen.history)
                    [] button = "decrement" ->
                          decrement(seen.count, seen.history)
                    [] button = "reset" -> reset(seen.count, seen.history)
       IN  counter' = [count |-> set.count, history |-> set.history,
                       clicks |-> Append(counter.clicks, button)]
    /\ UNCHANGED <<auth, profile>>

\* The userId props a UserProfile is rendered with.
UserIds == {1, 2, 999}

NoData == [none |-> TRUE]
UserData(id) == [id |-> id]

\* The outcomes of GET /users/:id: a user, a non-OK status, a network error.
FetchOutcomes == {"ok", "notok", "error"}

\* The message of the error the catch block receives.
ErrorMessage(outcome) ==
    IF outcome = "notok" THEN "Failed to fetch user" ELSE "Failed to fetch"

\* The start of the effect: setLoading(true), setError(null), fetch.
StartFetch(p, id) ==
    [p EXCEPT !.userId = id, !.loading = TRUE, !.error = "",
              !.issued = @ + 1,
              !.fetches = @ \cup {[n |-> p.issued + 1, userId |-> id]},
              !.currentResult = "pending"]

\* UserProfile after its first render and effect, for userId 1.
ProfileInit ==
    StartFetch([userId |-> 1, user |-> NoData, loading |-> TRUE, error |-> "",
                issued |-> 0, fetches |-> {}, currentResult |-> "pending"], 1)

\* The try block after a response that is ok, with finally.
AfterSuccess(p, data) == [p EXCEPT !.user = data, !.loading = FALSE]

\* A catch block without the finally block after it.
AfterFailureNoFinally(p, message) == [p EXCEPT !.error = message]

\* The catch block, with finally.
AfterFailure(p, message) == [p EXCEPT !.error = message, !.loading = FALSE]

\* What UserProfile renders.
ProfileView(p) ==
    IF p.loading THEN [view |-> "loading"]
    ELSE IF p.error # "" THEN [view |-> "error", error |-> p.error]
    ELSE IF p.user = NoData THEN [view |-> "notfound"]
    ELSE [view |-> "user", user |-> p.user]

\* The userId prop changes: the effect runs again.
ChangeUserId(id) ==
    /\ id # profile.userId
    /\ profile.issued < MaxFetches
    /\ profile' = StartFetch(profile, id)
    /\ UNCHANGED <<auth, counter>>

\* A fetch in flight settles, and the rest of fetchUser runs.
FetchSettles(f, outcome) ==
    /\ f \in profile.fetches
    /\ LET settled == [profile EXCEPT
                          !.fetches = @ \ {f},
                          !.currentResult =
                              IF f.n = profile.issued THEN outcome ELSE @]
       IN  profile' = IF outcome = "ok"
                      THEN AfterSuccess(settled, UserData(f.userId))
                      ELSE AfterFailure(settled, ErrorMessage(outcome))
    /\ UNCHANGED <<auth, counter>>

(***************************************************************************)
(* The state machine: a browser context sends requests through the         *)
(* middleware, calls getSession, runs login and logout, and holds whatever *)
(* cookie text its user puts in the jar; the clock advances.               *)
(*                                                                         *)
(* Spec is the whole system, with a few cookie texts for the client to     *)
(* choose from.  GateSpec is the request-time part alone (the cookie jar,  *)
(* createSession, deleteSession, getSession, verifySession, requireRole,   *)
(* middleware, the clock), with every cookie text of ClientCookies.        *)
(* PairSpec has two contexts; CounterSpec and ProfileSpec are the two      *)
(* client components, each on its own.  NavSpec is the browser asking for  *)
(* a path and following the redirects it is answered with.                 *)
(***************************************************************************)
Paths ==
    { RootPath, LoginPath, DashboardPath, AdminPath,
      <<"/", "about">>,
      <<"/", "login", "/", "help">>,
      <<"/", "dashboard", "/", "settings">>,
      <<"/", "admin", "/", "users">>,
      <<"/", "admin", "istrator">> }

\* The cookie texts a client can put in its own jar.
ClientUserIds == {Undefined, Num(0), Num(1), Str(<<>>)}
ClientEmails == {Undefined, Str(JohnMail)}
ClientRoles == {Undefined, Str(<<"customer">>), Str(<<"admin">>)}
ClientExpiries == {Undefined, Null, Num(0), Str(<<"soon">>), IsoString(1)}
ClientCookies ==
    { NoCookie, EmptyText, NotJson,
      JsonText(Null), JsonText(Num(5)), JsonText(EmptyArray) }
        \cup { JsonText(Obj(u, e, r, x)) :
                  u \in ClientUserIds, e \in ClientEmails,
                  r \in ClientRoles, x \in ClientExpiries }

\* The texts the client chooses from in Spec: no cookie, a text that is not
\* JSON, a record that claims the admin role, one without expiresAt, and
\* one that claims nothing.
SomeClientCookies ==
    { NoCookie, NotJson,
      JsonText(Obj(Num(1), Str(JohnMail), Str(<<"admin">>), IsoString(1))),
      JsonText(Obj(Num(1), Str(JohnMail), Str(<<"customer">>), Undefined)),
      JsonText(Obj(Undefined, Undefined, Undefined, Undefined)) }

\* The instants at which the clock is read.
ClockValues ==
    (0..MaxSkew) \cup {SessionDuration + k : k \in (0 - MaxSkew)..MaxSkew}

Init ==
    /\ now = 0
    /\ cookie = [c \in Contexts |-> NoCookie]
    /\ loginCall = [c \in Contexts |-> LoginIdle]
    /\ last = [op |-> "init"]
    /\ loggedOut = [c \in Contexts |-> NotLoggedOut]
    /\ counter = CounterInit
    /\ profile = ProfileInit

\* Time passes.
Tick(t) ==
    /\ UNCHANGED ui
    /\ now < t
    /\ now' = t
    /\ last' = [op |-> "tick"]
    /\ UNCHANGED <<cookie, loginCall, loggedOut>>

\* The user of context c edits the cookie jar.
ClientSetCookie(c, text) ==
    /\ UNCHANGED ui
    /\ text # cookie[c]
    /\ cookie' = [cookie EXCEPT ![c] = text]
    /\ last' = [op |-> "setCookie", ctx |-> c]
    /\ loggedOut' = [loggedOut EXCEPT ![c] =
          IF @.is THEN [@ EXCEPT !.edited = TRUE] ELSE @]
    /\ UNCHANGED <<now, loginCall>>

\* A middleware that clears the cookie of a request it sends to /login.
MiddlewareRequestClearsCookie(c, path) ==
    LET out == middleware(path, cookie[c], now) IN
    /\ UNCHANGED ui
    /\ last' = [op |-> "middleware", ctx |-> c, path |-> path, out |-> out]
    /\ cookie' = [cookie EXCEPT ![c] =
          IF out = RedirectToLogin(path) THEN NoCookie ELSE @]
    /\ UNCHANGED <<now, loginCall, loggedOut>>

\* A request of context c for path goes through middleware.
MiddlewareRequest(c, path) ==
    /\ UNCHANGED ui
    /\ last' = [op |-> "middleware", ctx |-> c, path |-> path,
                out |-> middleware(path, cookie[c], now)]
    /\ UNCHANGED <<now, cookie, loginCall, loggedOut>>

\* Server code of context c calls getSession.
GetSessionCall(c) ==
    /\ UNCHANGED ui
    /\ last' = [op |-> "getSession", ctx |-> c,
                out |-> getSession(cookie[c], now)]
    /\ UNCHANGED <<now, cookie, loginCall, loggedOut>>

\* A page of context c calls verifySession.
VerifySessionCall(c) ==
    /\ UNCHANGED ui
    /\ last' = [op |-> "verifySession", ctx |-> c,
                out |-> verifySession(cookie[c], now)]
    /\ UNCHANGED <<now, cookie, loginCall, loggedOut>>

\* A page of context c calls requireRole(allowedRoles).
RequireRoleCall(c, allowedRoles) ==
    /\ UNCHANGED ui
    /\ last' = [op |-> "requireRole", ctx |-> c, allowedRoles |-> allowedRoles,
                out |-> requireRole(allowedRoles, cookie[c], now)]
    /\ UNCHANGED <<now, cookie, loginCall, loggedOut>>

\* The browser of context c asks for path: the first request of a chain.
Navigate(c, path) ==
    /\ UNCHANGED ui
    /\ last' = [op |-> "navigate", ctx |-> c, path |-> path, hops |-> 0,
                visited |-> {}, out |-> Serve(path, cookie[c], now)]
    /\ UNCHANGED <<now, cookie, loginCall, loggedOut>>

\* The browser follows the redirect it was answered with: it asks for the
\* target, with the same cookie.
FollowRedirect(c) ==
    /\ UNCHANGED ui
    /\ last.op = "navigate"
    /\ last.ctx = c
    /\ last.out.status = "redirect"
    /\ last.hops < MaxHops
    /\ last' = [op |-> "navigate", ctx |-> c, path |-> last.out.to,
                hops |-> last.hops + 1,
                visited |-> last.visited \cup {last.path},
                out |-> Serve(last.out.to, cookie[c], now)]
    /\ UNCHANGED <<now, cookie, loginCall, loggedOut>>

\* createSession and deleteSession, called on their own.
CreateSessionCall(c, user) ==
    /\ UNCHANGED ui
    /\ cookie' = [cookie EXCEPT ![c] =
          createSession(Num(user.id), Str(user.email), Str(user.role), now)]
    /\ last' = [op |-> "createSession", ctx |-> c]
    /\ loggedOut' = [loggedOut EXCEPT ![c] = NotLoggedOut]
    /\ UNCHANGED <<now, loginCall>>

DeleteSessionCall(c) ==
    /\ UNCHANGED ui
    /\ cookie' = [cookie EXCEPT ![c] = deleteSession(cookie[c])]
    /\ last' = [op |-> "deleteSession", ctx |-> c]
    /\ UNCHANGED <<now, loginCall, loggedOut>>

\* login returns result; call is the finished call, before the cookie as
\* the returning step found it.
LoginReturn(c, call, result) ==
    /\ loginCall' = [loginCall EXCEPT ![c] = LoginIdle]
    /\ last' = [op |-> "login", ctx |-> c, result |-> result, call |-> call,
                before |-> cookie[c]]

\* login, up to its first await: the validation, then either the early
\* return or the fetch of /auth/login.
LoginSubmit(c, form) ==
    /\ UNCHANGED ui
    /\ loginCall[c].pc = "idle"
    /\ LET call == LoginStarted(form)
           errors == ValidationErrors(form)
       IN  IF ValidationFails(errors)
           THEN LoginReturn(c, call, ErrorsResult(errors))
           ELSE /\ loginCall' = [loginCall EXCEPT ![c] =
                      [call EXCEPT !.pc = "exchange", !.exchangeCalls = @ + 1]]
                /\ last' = [op |-> "fetch", ctx |-> c, url |-> "/auth/login"]
    /\ UNCHANGED <<now, cookie, loggedOut>>

\* login without the test of loginResponse.ok: the profile is fetched after
\* a refused exchange too.
LoginExchangeResponseUnchecked(c, response) ==
    /\ UNCHANGED ui
    /\ loginCall[c].pc = "exchange"
    /\ LET call == [loginCall[c] EXCEPT !.exchangeResponse = response] IN
       IF response = "error"
       THEN LoginReturn(c, call, LoginCatch(NetworkError))
       ELSE /\ loginCall' = [loginCall EXCEPT ![c] =
                  [call EXCEPT !.pc = "profile", !.profileCalls = @ + 1,
                               !.authData = AuthData]]
            /\ last' = [op |-> "fetch", ctx |-> c, url |-> "/auth/profile"]
    /\ UNCHANGED <<now, cookie, loggedOut>>

\* The fetch of /auth/login settles: login returns, or fetches the profile.
LoginExchangeResponse(c, response) ==
    /\ UNCHANGED ui
    /\ loginCall[c].pc = "exchange"
    /\ LET call == [loginCall[c] EXCEPT !.exchangeResponse = response] IN
       CASE response = "error" -> LoginReturn(c, call, LoginCatch(NetworkError))
         [] response = "notok" ->
                LoginReturn(c, call, MessageResult(InvalidCredentialsMessage))
         [] response = "ok" ->
                /\ loginCall' = [loginCall EXCEPT ![c] =
                      [call EXCEPT !.pc = "profile", !.profileCalls = @ + 1,
                                   !.authData = AuthData]]
                /\ last' = [op |-> "fetch", ctx |-> c, url |-> "/auth/profile"]
    /\ UNCHANGED <<now, cookie, loggedOut>>

\* The fetch of /auth/profile settles: login returns a message, or creates
\* the session from the profile and calls redirect inside its try block.
LoginProfileResponse(c, response) ==
    /\ UNCHANGED ui
    /\ loginCall[c].pc = "profile"
    /\ LET call == [loginCall[c] EXCEPT !.profileResponse = response.kind] IN
       CASE response.kind = "error" ->
                /\ LoginReturn(c, call, LoginCatch(NetworkError))
                /\ UNCHANGED <<cookie, loggedOut>>
         [] response.kind = "notok" ->
                /\ LoginReturn(c, call, MessageResult(ProfileFailedMessage))
                /\ UNCHANGED <<cookie, loggedOut>>
         [] response.kind = "ok" ->
                LET user == response.user
                    args == CreateSessionArgs(user)
                IN
                /\ cookie' = [cookie EXCEPT ![c] =
                      createSession(args[1], args[2], args[3], now)]
                /\ loggedOut' = [loggedOut EXCEPT ![c] = NotLoggedOut]
                /\ LoginReturn(c,
                      [call EXCEPT !.user = user, !.createCalls = @ + 1],
                      LoginCatch(redirect(DashboardPath)))
    /\ UNCHANGED now

\* A logout over a cookie store that all contexts share.
LogoutAll(c) ==
    /\ UNCHANGED ui
    /\ cookie' = [d \in Contexts |-> deleteSession(cookie[d])]
    /\ last' = [op |-> "logout", ctx |-> c, out |-> redirect(LoginPath)]
    /\ loggedOut' = [loggedOut EXCEPT ![c] = LoggedOutFrom(cookie[c])]
    /\ UNCHANGED <<now, loginCall>>

\* logout: deleteSession, then redirect("/login"), which nothing catches.
Logout(c) ==
    /\ UNCHANGED ui
    /\ cookie' = [cookie EXCEPT ![c] = deleteSession(cookie[c])]
    /\ last' = [op |-> "logout", ctx |-> c, out |-> redirect(LoginPath)]
    /\ loggedOut' = [loggedOut EXCEPT ![c] = LoggedOutFrom(cookie[c])]
    /\ UNCHANGED <<now, loginCall>>

Next ==
    \/ \E t \in ClockValues : Tick(t)
    \/ \E c \in Active :
          \/ \E text \in SomeClientCookies : ClientSetCookie(c, text)
          \/ \E path \in Paths : MiddlewareRequest(c, path)
          \/ GetSessionCall(c)
          \/ VerifySessionCall(c)
          \/ \E form \in Forms : LoginSubmit(c, form)
          \/ \E response \in ExchangeResponses : LoginExchangeResponse(c, response)
          \/ \E response \in ProfileResponses : LoginProfileResponse(c, response)
          \/ Logout(c)

Spec == Init /\ [][Next]_vars

GateNext ==
    \/ \E t \in ClockValues : Tick(t)
    \/ \E c \in Active :
          \/ \E text \in ClientCookies : ClientSetCookie(c, text)
          \/ \E user \in Users : CreateSessionCall(c, user)
          \/ DeleteSessionCall(c)
          \/ \E path \in Paths : MiddlewareRequest(c, path)
          \/ GetSessionCall(c)
          \/ VerifySessionCall(c)
          \/ \E allowedRoles \in RoleLists : RequireRoleCall(c, allowedRoles)

GateSpec == Init /\ [][GateNext]_vars

\* Two browser contexts whose steps interleave, at one instant of the clock
\* and with few inputs each.
PairCookies ==
    { NoCookie,
      JsonText(Obj(Num(1), Str(JohnMail), Str(<<"admin">>), IsoString(1))) }
PairPaths == {LoginPath, DashboardPath}
PairForms ==
    { [email |-> FieldText(JohnMail), password |-> FieldText(<<"changeme">>)],
      [email |-> FieldText(<<"not-an-email">>), password |-> FieldText(<<" ">>)] }
PairProfileResponses ==
    {[kind |-> "notok"]} \cup {[kind |-> "ok", user |-> u] : u \in Users}

PairNext ==
    \E c \in Contexts :
        \/ \E text \in PairCookies : ClientSetCookie(c, text)
        \/ \E path \in PairPaths : MiddlewareRequest(c, path)
        \/ GetSessionCall(c)
        \/ \E form \in PairForms : LoginSubmit(c, form)
        \/ \E response \in ExchangeResponses : LoginExchangeResponse(c, response)
        \/ \E response \in PairProfileResponses : LoginProfileResponse(c, response)
        \/ Logout(c)

PairSpec == Init /\ [][PairNext]_vars

\* The Counter on its own, and the UserProfile on its own.
CounterNext == \E button \in Buttons : Click(button)

CounterSpec == Init /\ [][CounterNext]_vars

ProfileNext ==
    \/ \E id \in UserIds : ChangeUserId(id)
    \/ \E f \in profile.fetches : \E outcome \in FetchOutcomes :
          FetchSettles(f, outcome)

ProfileSpec == Init /\ [][ProfileNext]_vars

\* Navigation: the browser asks for a path and follows the redirects, with
\* the cookie and at the instant the chain began.
NavNext ==
    \/ \E t \in ClockValues : Tick(t)
    \/ \E c \in Active :
          \/ \E text \in ClientCookies : ClientSetCookie(c, text)
          \/ \E path \in Paths : Navigate(c, path)
          \/ FollowRedirect(c)

NavSpec == Init /\ [][NavNext]_vars

(***************************************************************************)
(* The vocabulary of the properties.                                       *)
(***************************************************************************)
\* The value a cookie text parses to, for a text that is JSON.
IsJson(c) == c.kind = "json"

\* A JSON object, whatever fields it has.
IsObject(c) == IsJson(c) /\ c.val.type = "object"

\* An object whose expiresAt is the ISO text of an instant.
HasTimestamp(c) ==
    IsObject(c) /\ c.val.expiresAt.type = "string"
                /\ "iso" \in DOMAIN c.val.expiresAt

\* A well-formed session record: userId, email, role and a timestamp.
IsSessionRecord(c) ==
    /\ HasTimestamp(c)
    /\ c.val.userId.type \in {"number", "string"}
    /\ c.val.email.type = "string"
    /\ c.val.role.type = "string"

\* A record whose expiresAt lies in the past at clock t.
ExpiredRecord(c, t) == HasTimestamp(c) /\ c.val.expiresAt.iso < t

\* A valid, unexpired session at clock t: a well-formed record that names a
\* user (a userId other than 0 and the empty text) and expires after t.
ValidSession(c, t) ==
    /\ IsSessionRecord(c)
    /\ c.val.userId \notin {Num(0), Str(<<>>)}
    /\ t < c.val.expiresAt.iso

\* No valid session at clock t: no cookie, a cookie that does not decode to
\* an object, an expired record, or a record without userId.
NoValidSession(c, t) ==
    \/ c \in {NoCookie, EmptyText}
    \/ ~IsObject(c)
    \/ ExpiredRecord(c, t)
    \/ IsObject(c) /\ c.val.userId = Undefined

\* A text that parses as JSON and is no well-formed session record.
Malformed(c) == IsJson(c) /\ ~IsSessionRecord(c)

\* The cookie texts createSession produces for the provider's users.
ProducedByCreateSession(c) ==
    \E user \in Users : \E t \in ClockValues :
        c = createSession(Num(user.id), Str(user.email), Str(user.role), t)

IsProtectedPath(path) ==
    StartsWith(path, DashboardPath) \/ StartsWith(path, AdminPath)

IsAdminRole(c) == c.val.role = Str(<<"admin">>)

\* The step just taken is a middleware request, or a getSession call.
AfterMiddleware == last.op = "middleware"
AfterGetSession == last.op = "getSession"
AfterLogin == last.op = "login"
AfterVerifySession == last.op = "verifySession"
AfterLogout == last.op = "logout"
AfterRequireRole == last.op = "requireRole"
AfterNavigate == last.op = "navigate"

\* The cookie the step just taken read.
CookieRead == cookie[last.ctx]

(***************************************************************************)
(* C1.  A request for a protected path (under /dashboard or /admin) that   *)
(* carries no valid session (no cookie, an undecodable cookie, an expired  *)
(* record, a record without userId) is redirected to /login with the       *)
(* redirect parameter equal to the requested path, never to /dashboard.    *)
(***************************************************************************)
C1_ProtectedWithoutSessionGoesToLogin ==
    (AfterMiddleware /\ IsProtectedPath(last.path)
        /\ NoValidSession(CookieRead, now))
    => last.out = RedirectToLogin(last.path)

C1_Witness ==
    /\ AfterMiddleware
    /\ StartsWith(last.path, AdminPath) /\ last.path # AdminPath
    /\ ExpiredRecord(CookieRead, now)
    /\ IsAdminRole(CookieRead)
    /\ last.out = RedirectToLogin(last.path)

(***************************************************************************)
(* C2.  A request for a path under /admin that carries a valid, unexpired  *)
(* session whose role is not "admin" is redirected to /dashboard.          *)
(***************************************************************************)
C2_AdminPathWrongRoleGoesToDashboard ==
    (AfterMiddleware /\ StartsWith(last.path, AdminPath)
        /\ ValidSession(CookieRead, now) /\ ~IsAdminRole(CookieRead))
    => last.out = RedirectTo(DashboardPath)

C2_Witness ==
    /\ AfterMiddleware
    /\ last.path = AdminPath
    /\ ValidSession(CookieRead, now)
    /\ CookieRead.val.role = Str(<<"customer">>)
    /\ last.out = RedirectTo(DashboardPath)

(***************************************************************************)
(* C3.  A request for a protected path that carries a valid, unexpired     *)
(* session is allowed when the path is under /dashboard (any role) and     *)
(* when it is under /admin and the role is "admin".                        *)
(***************************************************************************)
C3_ValidSessionIsAllowed ==
    (AfterMiddleware /\ ValidSession(CookieRead, now)
        /\ \/ StartsWith(last.path, DashboardPath)
           \/ StartsWith(last.path, AdminPath) /\ IsAdminRole(CookieRead))
    => last.out = ResponseNext

C3_Witness ==
    /\ AfterMiddleware
    /\ last.path = AdminPath
    /\ ValidSession(CookieRead, now) /\ IsAdminRole(CookieRead)
    /\ last.out = ResponseNext

(***************************************************************************)
(* C4.  A request for /login that carries a valid, unexpired session is    *)
(* redirected to /dashboard; one that carries no valid session is allowed. *)
(***************************************************************************)
C4_LoginPathBySession ==
    (AfterMiddleware /\ last.path = LoginPath)
    => /\ ValidSession(CookieRead, now) => last.out = RedirectTo(DashboardPath)
       /\ NoValidSession(CookieRead, now) => last.out = ResponseNext

C4_Witness ==
    /\ AfterMiddleware
    /\ last.path = LoginPath
    /\ ValidSession(CookieRead, now)
    /\ last.out = RedirectTo(DashboardPath)

(***************************************************************************)
(* C5.  A request for the public path / is allowed whatever the cookie:    *)
(* absent, malformed, expired, or valid with any role.                     *)
(***************************************************************************)
C5_RootIsAlwaysAllowed ==
    (AfterMiddleware /\ last.path = RootPath) => last.out = ResponseNext

C5_Witness ==
    /\ AfterMiddleware
    /\ last.path = RootPath
    /\ ValidSession(CookieRead, now) /\ IsAdminRole(CookieRead)
    /\ last.out = ResponseNext

(***************************************************************************)
(* C6.  When the session cookie is absent or its value is not parseable    *)
(* JSON, getSession returns null: it does not throw and returns no record. *)
(***************************************************************************)
C6_NoCookieOrNotJsonGivesNull ==
    (AfterGetSession /\ ~IsJson(CookieRead)) => last.out = Returned(Null)

C6_Witness ==
    AfterGetSession /\ CookieRead = NotJson /\ last.out = Returned(Null)

(***************************************************************************)
(* C7.  Decoding fails closed: for a cookie that parses as JSON but lacks  *)
(* a session field (userId, email, role, expiresAt) or whose expiresAt is  *)
(* no parseable timestamp, getSession returns null and middleware answers  *)
(* as it does for a request without cookie.                                *)
(***************************************************************************)
C7_DecodingFailsClosed ==
    /\ (AfterGetSession /\ Malformed(CookieRead))
       => last.out = Returned(Null)
    /\ (AfterMiddleware /\ Malformed(CookieRead))
       => last.out = middleware(last.path, NoCookie, now)

(***************************************************************************)
(* C8.  For a record whose expiresAt lies in the past, getSession returns  *)
(* null although the cookie decodes, and middleware answers as it does for *)
(* a request without session: /login for a protected path, allow otherwise.*)
(***************************************************************************)
C8_ExpiredRecordIsNoSession ==
    /\ (AfterGetSession /\ ExpiredRecord(CookieRead, now))
       => last.out = Returned(Null)
    /\ (AfterMiddleware /\ ExpiredRecord(CookieRead, now))
       => last.out = IF IsProtectedPath(last.path)
                     THEN RedirectToLogin(last.path)
                     ELSE ResponseNext

C8_Witness ==
    /\ AfterGetSession
    /\ IsSessionRecord(CookieRead)
    /\ ExpiredRecord(CookieRead, now)
    /\ last.out = Returned(Null)

(***************************************************************************)
(* C9.  Every session that getSession or middleware accepts carries a role *)
(* that createSession wrote from the identity provider's profile: a cookie *)
(* the client chose, which createSession did not produce, is never         *)
(* accepted with the role of the client's choosing.                        *)
(***************************************************************************)
C9_AcceptedRoleComesFromCreateSession ==
    /\ (AfterMiddleware /\ StartsWith(last.path, AdminPath)
           /\ last.out = ResponseNext)
       => ProducedByCreateSession(CookieRead)
    /\ (AfterGetSession /\ last.out # Returned(Null)
           /\ OptField(last.out.val, "role") # Undefined)
       => ProducedByCreateSession(CookieRead)

(***************************************************************************)
(* C10.  When the validation of login fails (the email is not of address   *)
(* shape, or the password is empty after trimming), login returns the      *)
(* validation errors and has called neither the identity provider (no      *)
(* exchange, no profile fetch) nor createSession nor deleteSession.        *)
(***************************************************************************)
C10_InvalidInputTouchesNothing ==
    (AfterLogin /\ \/ EmailRejected(last.call.form.email)
                   \/ PasswordRejected(last.call.form.password))
    => /\ last.result.kind = "errors"
       /\ last.call.exchangeCalls = 0
       /\ last.call.profileCalls = 0
       /\ last.call.createCalls = 0
       /\ last.call.deleteCalls = 0

C10_Witness ==
    /\ AfterLogin
    /\ ~EmailRejected(last.call.form.email)
    /\ last.call.form.password = FieldText(<<" ">>)
    /\ last.result = ErrorsResult([key \in {"password"} |-> ErrorText(key)])
    /\ cookie[last.ctx] = NoCookie

(***************************************************************************)
(* C11.  The two input checks of login are independent: the errors object  *)
(* login returns has the key email exactly when the email is rejected and  *)
(* the key password exactly when the password is empty after trimming, so  *)
(* a form that fails both checks gets both errors in one result.           *)
(***************************************************************************)
ErrorKeys(result) ==
    IF "errors" \in DOMAIN result THEN DOMAIN result.errors ELSE {}

C11_ChecksAreIndependent ==
    AfterLogin
    => /\ "email" \in ErrorKeys(last.result)
             <=> EmailRejected(last.call.form.email)
       /\ "password" \in ErrorKeys(last.result)
             <=> PasswordRejected(last.call.form.password)

C11_Witness ==
    /\ AfterLogin
    /\ last.call.form.email = FieldText(<<"not-an-email">>)
    /\ last.call.form.password = FieldText(<<" ">>)
    /\ last.result = ErrorsResult([key \in {"email", "password"} |->
                                      ErrorText(key)])

(***************************************************************************)
(* C12.  As stated: whenever the credential exchange fails, by a non-OK    *)
(* response or by a network failure, login returns one and the same        *)
(* message, that of a refused exchange.                                    *)
(***************************************************************************)
ExchangeFailed(call) == call.exchangeResponse \in {"notok", "error"}

C12_ExchangeFailureHasOneMessage ==
    (AfterLogin /\ ExchangeFailed(last.call))
    => last.result = MessageResult(InvalidCredentialsMessage)

(***************************************************************************)
(* C12, as the code has it: a non-OK response of the exchange gives the    *)
(* invalid-credentials message, a network failure gives the message of the *)
(* catch block; either way login returns a message, fetches no profile and *)
(* creates no session.                                                     *)
(***************************************************************************)
C12_ExchangeFailureMessages ==
    (AfterLogin /\ ExchangeFailed(last.call))
    => /\ last.call.exchangeResponse = "notok"
             => last.result = MessageResult(InvalidCredentialsMessage)
       /\ last.call.exchangeResponse = "error"
             => last.result = MessageResult(LoginErrorMessage)
       /\ InvalidCredentialsMessage # LoginErrorMessage
       /\ last.call.profileCalls = 0
       /\ last.call.createCalls = 0

C12_Witness ==
    /\ AfterLogin
    /\ last.call.exchangeResponse = "error"
    /\ last.call.exchangeCalls = 1
    /\ last.result = MessageResult(LoginErrorMessage)

(***************************************************************************)
(* C13.  When the exchange succeeds and the profile fetch gets a non-OK    *)
(* response, login returns the profile-fetch-failed message, which is not  *)
(* the message of a refused exchange, and createSession is not called.     *)
(***************************************************************************)
C13_ProfileFailureIsDistinct ==
    (AfterLogin /\ last.call.exchangeResponse = "ok"
        /\ last.call.profileResponse = "notok")
    => /\ last.result = MessageResult(ProfileFailedMessage)
       /\ last.result # MessageResult(InvalidCredentialsMessage)
       /\ last.call.createCalls = 0

C13_Witness ==
    /\ AfterLogin
    /\ last.call.exchangeResponse = "ok"
    /\ last.call.profileCalls = 1
    /\ last.call.profileResponse = "notok"
    /\ last.result = MessageResult(ProfileFailedMessage)
    /\ cookie[last.ctx] = NoCookie

(***************************************************************************)
(* C14.  The session a login writes has the userId, email and role of the  *)
(* provider's profile response, whatever the form submitted, and an        *)
(* expiresAt exactly 7 days after the instant of creation.                 *)
(***************************************************************************)
SessionWritten(call) == call.createCalls = 1

C14_SessionComesFromProfile ==
    (AfterLogin /\ SessionWritten(last.call))
    => /\ IsSessionRecord(CookieRead)
       /\ CookieRead.val.userId = Num(last.call.user.id)
       /\ CookieRead.val.email = Str(last.call.user.email)
       /\ CookieRead.val.role = Str(last.call.user.role)
       /\ CookieRead.val.expiresAt = IsoString(now + 7 * 24 * 60 * 60 * 1000)

C14_Witness ==
    /\ AfterLogin
    /\ SessionWritten(last.call)
    /\ last.call.form.email = FieldText(JohnMail)
    /\ last.call.user.email = AdminMail
    /\ CookieRead.val.email = Str(AdminMail)
    /\ now > 0

(***************************************************************************)
(* C15.  When the exchange and the profile fetch both succeed, login ends  *)
(* with the redirect to /dashboard, not with a result object, and          *)
(* getSession in the same context then returns the record with the role    *)
(* of the profile.                                                         *)
(***************************************************************************)
BothSucceeded(call) ==
    call.exchangeResponse = "ok" /\ call.profileResponse = "ok"

C15_SuccessfulLoginRedirects ==
    (AfterLogin /\ BothSucceeded(last.call))
    => /\ last.result = redirect(DashboardPath)
       /\ getSession(CookieRead, now) # Returned(Null)
       /\ OptField(getSession(CookieRead, now).val, "role")
             = Str(last.call.user.role)

(***************************************************************************)
(* C16.  A step in which login returns a result object (field errors, a    *)
(* message of a failed fetch, the message of the catch block) leaves the   *)
(* session cookie as it was: that login wrote no session.                  *)
(***************************************************************************)
ReturnsResultObject(result) == "kind" \in DOMAIN result

C16_ResultObjectLeavesCookie ==
    (AfterLogin /\ ReturnsResultObject(last.result))
    => /\ last.call.createCalls = 0
       /\ CookieRead = last.before
       /\ last.before = NoCookie => getSession(CookieRead, now) = Returned(Null)

(***************************************************************************)
(* C17.  logout deletes the cookie and raises nothing but its redirect,    *)
(* whatever the cookie was (a valid session, an expired one, a malformed   *)
(* text, no cookie at all), and getSession called next in the same         *)
(* context, with no write of the cookie in between, returns null.          *)
(***************************************************************************)
JustLoggedOut(c) == loggedOut[c].is /\ ~loggedOut[c].edited

C17_LogoutThenGetSessionIsNull ==
    /\ AfterLogout
       => /\ cookie[last.ctx] = NoCookie
          /\ last.out = redirect(LoginPath)
    /\ (AfterGetSession /\ JustLoggedOut(last.ctx))
       => last.out = Returned(Null)

C17_Witness ==
    /\ AfterGetSession
    /\ JustLoggedOut(last.ctx)
    /\ ValidSession(loggedOut[last.ctx].from, now)
    /\ last.out = Returned(Null)

(***************************************************************************)
(* C18.  From a logout of a browser context until createSession next       *)
(* writes its cookie in a login, middleware redirects every request of     *)
(* that context for a protected path to /login.                            *)
(***************************************************************************)
C18_LoggedOutStaysOut ==
    (AfterMiddleware /\ loggedOut[last.ctx].is /\ IsProtectedPath(last.path))
    => last.out = RedirectToLogin(last.path)

(***************************************************************************)
(* C19.  When getSession yields null, and for every cookie that holds no   *)
(* valid session (absent, undecodable, expired, without userId),           *)
(* verifySession ends in the redirect to /login that redirect throws and   *)
(* returns no record to the calling page.                                  *)
(***************************************************************************)
C19_NoSessionMeansRedirectToLogin ==
    (AfterVerifySession
        /\ \/ getSession(CookieRead, now) = Returned(Null)
           \/ NoValidSession(CookieRead, now))
    => /\ last.out = redirect(LoginPath)
       /\ last.out.threw
       /\ "val" \notin DOMAIN last.out

C19_Witness ==
    /\ AfterVerifySession
    /\ CookieRead = NotJson
    /\ last.out = redirect(LoginPath)

C21_RoleOutsideListGoesToDashboard ==
    (AfterRequireRole /\ ValidSession(CookieRead, now)
        /\ ~Includes(last.allowedRoles, CookieRead.val.role))
    => /\ last.out = redirect(DashboardPath)
       /\ last.out.threw
       /\ "val" \notin DOMAIN last.out

C21_Witness ==
    /\ AfterRequireRole
    /\ ValidSession(CookieRead, now)
    /\ CookieRead.val.role = Str(<<"customer">>)
    /\ last.allowedRoles = <<Str(<<"admin">>)>>
    /\ last.out = redirect(DashboardPath)

(***************************************************************************)
(* C22.  For every valid session whose role is in allowedRoles (a list of  *)
(* one or of several roles), requireRole triggers no redirect and returns  *)
(* the session record of the current session: its userId, email, role and  *)
(* expiresAt.                                                              *)
(***************************************************************************)
C22_RoleInListReturnsSessionRecord ==
    (AfterRequireRole /\ ValidSession(CookieRead, now)
        /\ Includes(last.allowedRoles, CookieRead.val.role))
    => /\ ~last.out.threw
       /\ last.out = Returned(CookieRead.val)

(***************************************************************************)
(* C23.  middleware, getSession, verifySession and requireRole never set   *)
(* or delete the session cookie: a step of any of them leaves the cookie   *)
(* of every context as it was, also when it found the session expired or   *)
(* malformed.                                                              *)
(***************************************************************************)
ReadOps == {"middleware", "getSession", "verifySession", "requireRole"}

C23_ReadsLeaveCookie ==
    [][last'.op \in ReadOps => cookie' = cookie]_vars

C23_Witness ==
    /\ AfterMiddleware
    /\ IsProtectedPath(last.path)
    /\ ExpiredRecord(CookieRead, now)
    /\ last.out = RedirectToLogin(last.path)

(***************************************************************************)
(* C24.  In every reachable state the value of every session cookie that   *)
(* is an object has the fields userId, email, role and expiresAt and no    *)
(* other, and none of them holds a submitted password, the password of a   *)
(* profile response, the access token or the refresh token.                *)
(***************************************************************************)
SessionFields == {"userId", "email", "role", "expiresAt"}

Secrets ==
    {Str(f.text) : f \in {g \in FormPasswords : ~PasswordRejected(g)}}
        \cup {Str(u.password) : u \in Users}
        \cup {Str(AuthData.access_token), Str(AuthData.refresh_token)}

C24_CookieCarriesNoSecret ==
    \A c \in Contexts :
        IsObject(cookie[c])
        => /\ DOMAIN cookie[c].val = SessionFields \cup {"type"}
           /\ \A f \in SessionFields : cookie[c].val[f] \notin Secrets

C24_Witness ==
    /\ AfterLogin
    /\ SessionWritten(last.call)
    /\ last.call.form.password = FieldText(<<"changeme">>)
    /\ last.call.user.password = <<"changeme">>
    /\ last.call.authData = AuthData
    /\ IsSessionRecord(CookieRead)

(***************************************************************************)
(* C25.  Two session cookies that differ only in the email field get the   *)
(* same decision (allow, or the same redirect target) from middleware for  *)
(* every path, from verifySession, and from requireRole for every list of  *)
(* allowed roles: the email never influences authorization.                *)
(***************************************************************************)
WithEmail(c, email) ==
    IF IsObject(c) THEN JsonText([c.val EXCEPT !.email = email]) ELSE c

Decision(out) == IF out.threw THEN out ELSE [threw |-> FALSE]

C25_EmailDoesNotDecide ==
    \A email \in ClientEmails \cup {Str(AdminMail)} :
        /\ AfterMiddleware
           => middleware(last.path, WithEmail(CookieRead, email), now)
                 = last.out
        /\ AfterVerifySession
           => Decision(verifySession(WithEmail(CookieRead, email), now))
                 = Decision(last.out)
        /\ AfterRequireRole
           => Decision(requireRole(last.allowedRoles,
                                   WithEmail(CookieRead, email), now))
                 = Decision(last.out)

C25_Witness ==
    /\ AfterRequireRole
    /\ ValidSession(CookieRead, now)
    /\ CookieRead.val.email = Str(JohnMail)
    /\ ~last.out.threw
    /\ ~requireRole(last.allowedRoles,
                    WithEmail(CookieRead, Str(AdminMail)), now).threw

(***************************************************************************)
(* C26.  With the steps of login, logout, getSession and middleware of     *)
(* several contexts interleaving, a step of one context changes neither    *)
(* the session cookie of another context, nor its running login, nor what  *)
(* getSession and middleware answer to it.                                 *)
(***************************************************************************)
StepOfAnother(c) == "ctx" \in DOMAIN last' /\ last'.ctx # c

C26_ContextsAreIsolated ==
    [][\A c \in Contexts :
          StepOfAnother(c)
          => /\ cookie'[c] = cookie[c]
             /\ loginCall'[c] = loginCall[c]
             /\ getSession(cookie'[c], now') = getSession(cookie[c], now)
             /\ \A path \in PairPaths :
                   middleware(path, cookie'[c], now')
                      = middleware(path, cookie[c], now)]_vars

C26_Witness ==
    /\ AfterLogout
    /\ last.ctx = "B"
    /\ cookie["B"] = NoCookie
    /\ ProducedByCreateSession(cookie["A"])
    /\ loginCall["A"].pc = "profile"

(***************************************************************************)
(* C30.  getSession and middleware reject a session at the instant         *)
(* now = expiresAt: a record is accepted only while now < expiresAt.       *)
(***************************************************************************)
AtOrAfterExpiry(c, t) == HasTimestamp(c) /\ c.val.expiresAt.iso <= t

C30_RejectedAtExpiry ==
    /\ (AfterGetSession /\ AtOrAfterExpiry(CookieRead, now))
       => last.out = Returned(Null)
    /\ (AfterMiddleware /\ IsProtectedPath(last.path)
           /\ AtOrAfterExpiry(CookieRead, now))
       => last.out = RedirectToLogin(last.path)

(***************************************************************************)
(* C27.  From the initial state of Counter (count 0), after n clicks on    *)
(* Increment and no other click the count shown is n, for every n from 0   *)
(* on, however quickly the clicks follow each other.                       *)
(***************************************************************************)
OnlyIncrements(clicks) == \A i \in 1..Len(clicks) : clicks[i] = "increment"

C27_CountIsNumberOfIncrements ==
    OnlyIncrements(counter.clicks)
    => CounterView(counter).count = Len(counter.clicks)

C27_Witness ==
    /\ Len(counter.clicks) = 3
    /\ OnlyIncrements(counter.clicks)
    /\ CounterView(counter).count = 3

(***************************************************************************)
(* C28.  In every reachable state of Counter, history is the sequence of   *)
(* the count values the Increment and Decrement clicks since the last      *)
(* Reset produced, so its last element is count when it is not empty, and  *)
(* a Reset from any state leaves count 0 and history empty.                *)
(***************************************************************************)
\* The clicks after the last Reset.
RECURSIVE SinceReset(_)
SinceReset(clicks) ==
    IF clicks = <<>> \/ clicks[Len(clicks)] = "reset" THEN <<>>
    ELSE Append(SinceReset(SubSeq(clicks, 1, Len(clicks) - 1)),
                clicks[Len(clicks)])

\* The counts a run of Increment and Decrement clicks produces from 0.
RECURSIVE CountsOf(_)
CountsOf(clicks) ==
    IF clicks = <<>> THEN <<>>
    ELSE LET before == CountsOf(SubSeq(clicks, 1, Len(clicks) - 1))
             from == IF before = <<>> THEN 0 ELSE before[Len(before)]
         IN  Append(before,
                    IF clicks[Len(clicks)] = "increment"
                    THEN from + 1 ELSE from - 1)

C28_HistoryIsCountsSinceReset ==
    /\ counter.history = CountsOf(SinceReset(counter.clicks))
    /\ counter.history # <<>>
       => counter.history[Len(counter.history)] = counter.count
    /\ (counter.clicks # <<>>
           /\ counter.clicks[Len(counter.clicks)] = "reset")
       => /\ counter.count = 0
          /\ counter.history = <<>>
          /\ ~CounterView(counter).showsHistory

C28_Witness ==
    /\ counter.clicks = <<"increment", "reset", "decrement", "increment">>
    /\ counter.history = <<0 - 1, 0>>
    /\ counter.count = 0

(***************************************************************************)
(* C29.  Once the fetch UserProfile issued for the current userId has      *)
(* ended with a non-OK response or with a network error, the component is  *)
(* out of the loading state and shows the error, not user data, whatever   *)
(* earlier fetches do afterwards.                                          *)
(***************************************************************************)
CurrentFetchFailed(p) == p.currentResult \in {"notok", "error"}

C29_FailedFetchShowsError ==
    CurrentFetchFailed(profile)
    => /\ ~profile.loading
       /\ ProfileView(profile).view = "error"
       /\ "user" \notin DOMAIN ProfileView(profile)

C29_Witness ==
    /\ profile.currentResult = "error"
    /\ profile.userId = 999
    /\ profile.user = UserData(1)
    /\ profile.fetches = {}
    /\ ProfileView(profile) = [view |-> "error", error |-> "Failed to fetch"]

(***************************************************************************)
(* C31.  In every execution of login the steps come in the order           *)
(* validation, credential exchange, profile fetch, createSession: each     *)
(* fetch is made at most once, the exchange only for a form that passed    *)
(* validation, the profile fetch only after an exchange that succeeded,    *)
(* createSession at most once and only after a profile fetch that          *)
(* succeeded; a login that is suspended at a fetch has written no session, *)
(* and the steps that start a fetch leave the cookie alone.                *)
(***************************************************************************)
InOrder(call) ==
    /\ call.exchangeCalls \in {0, 1}
    /\ call.profileCalls \in {0, 1}
    /\ call.createCalls \in {0, 1}
    /\ call.exchangeCalls = 1
       => /\ ~EmailRejected(call.form.email)
          /\ ~PasswordRejected(call.form.password)
    /\ call.profileCalls = 1
       => call.exchangeCalls = 1 /\ call.exchangeResponse = "ok"
    /\ call.createCalls = 1
       => call.profileCalls = 1 /\ call.profileResponse = "ok"
    /\ call.exchangeResponse # "none" => call.exchangeCalls = 1
    /\ call.profileResponse # "none" => call.profileCalls = 1

Suspended(call) == call.pc \in {"exchange", "profile"}

LoginOrder ==
    /\ \A c \in Contexts :
          Suspended(loginCall[c])
          => InOrder(loginCall[c]) /\ loginCall[c].createCalls = 0
    /\ AfterLogin => InOrder(last.call)
    /\ (AfterLogin /\ ~SessionWritten(last.call)) => CookieRead = last.before

C31_LoginStepsInOrder ==
    /\ []LoginOrder
    /\ [][last'.op = "fetch" => cookie' = cookie]_vars

C31_Witness ==
    /\ AfterLogin
    /\ SessionWritten(last.call)
    /\ last.call.exchangeCalls = 1
    /\ last.call.profileCalls = 1
    /\ last.before = NoCookie
    /\ ProducedByCreateSession(CookieRead)

(***************************************************************************)
(* C32.  requireRole called with no valid session ends in the redirect to  *)
(* /login that verifySession issues and never in the redirect to           *)
(* /dashboard, whatever the list of roles: the session check comes before  *)
(* the role check.                                                         *)
(***************************************************************************)
C32_SessionCheckComesFirst ==
    (AfterRequireRole
        /\ \/ getSession(CookieRead, now) = Returned(Null)
           \/ NoValidSession(CookieRead, now))
    => /\ last.out = redirect(LoginPath)
       /\ last.out # redirect(DashboardPath)

C32_Witness ==
    /\ AfterRequireRole
    /\ ExpiredRecord(CookieRead, now)
    /\ CookieRead.val.role = Str(<<"customer">>)
    /\ last.allowedRoles = <<Str(<<"admin">>)>>
    /\ last.out = redirect(LoginPath)

(***************************************************************************)
(* C33.  When a request path matches more than one route classification    *)
(* entry, the outcome of middleware is the one prescribed by the entry     *)
(* with the longest matching prefix.  The entries are the routes of        *)
(* publicRoutes and protectedRoutes, each read as a prefix; /admin is the  *)
(* entry restricted to the role admin.                                     *)
(***************************************************************************)
UnexpiredRecord(c, t) == IsSessionRecord(c) /\ t < c.val.expiresAt.iso
UnexpiredRecordRead == UnexpiredRecord(CookieRead, now)

RouteEntries ==
    { [prefix |-> route, class |-> "public"] : route \in publicRoutes }
        \cup { [prefix |-> route,
                class |-> IF route = AdminPath THEN "restricted"
                          ELSE "protected"] : route \in protectedRoutes }

MatchingEntries(path) == { e \in RouteEntries : StartsWith(path, e.prefix) }

LongestEntry(path) ==
    CHOOSE e \in MatchingEntries(path) :
        \A f \in MatchingEntries(path) : Len(f.prefix) <= Len(e.prefix)

\* The outcome an entry prescribes: a public entry allows, but sends an
\* authenticated request for the login path to /dashboard; a protected entry
\* wants a user; the restricted entry wants a user, then the role admin.
Prescribed(e, path, c, t) ==
    LET session == MiddlewareSession(c, t)
        authenticated == Truthy(OptField(session, "userId"))
    IN  IF e.class = "public"
        THEN IF path = LoginPath /\ authenticated
             THEN RedirectTo(DashboardPath)
             ELSE ResponseNext
        ELSE IF ~authenticated THEN RedirectToLogin(path)
        ELSE IF e.class = "restricted"
                /\ OptField(session, "role") # Str(<<"admin">>)
        THEN RedirectTo(DashboardPath)
        ELSE ResponseNext

C33_LongestPrefixWins ==
    (AfterMiddleware /\ Cardinality(MatchingEntries(last.path)) > 1)
    => last.out = Prescribed(LongestEntry(last.path), last.path,
                             CookieRead, now)

\* /admin/users matches "/" and "/admin"; the shorter entry would allow.
C33_Witness ==
    /\ AfterMiddleware
    /\ last.path = <<"/", "admin", "/", "users">>
    /\ MatchingEntries(last.path)
         = { [prefix |-> RootPath, class |-> "public"],
             [prefix |-> AdminPath, class |-> "restricted"] }
    /\ UnexpiredRecordRead
    /\ CookieRead.val.role = Str(<<"customer">>)
    /\ Truthy(CookieRead.val.userId)
    /\ last.out = RedirectTo(DashboardPath)

(***************************************************************************)
(* C34.  For every path and every cookie value (absent, not JSON, JSON     *)
(* null, a JSON scalar or array, an object with any of the session fields  *)
(* missing) middleware ends with one of three outcomes, allow, redirect to *)
(* /login, redirect to /dashboard, and never with an error.                *)
(***************************************************************************)
C34_ThreeOutcomes ==
    AfterMiddleware
    => last.out \in { ResponseNext, RedirectToLogin(last.path),
                      RedirectTo(DashboardPath) }

C34_Witness ==
    /\ AfterMiddleware
    /\ CookieRead = JsonText(Null)
    /\ last.path = AdminPath
    /\ last.out = RedirectToLogin(AdminPath)

(***************************************************************************)
(* C35.  For every cookie value and every instant the edge check and the   *)
(* page-level check agree: middleware allows a request for /admin exactly  *)
(* when requireRole(["admin"]) on the same cookie at the same instant      *)
(* returns a record, and allows /dashboard exactly when verifySession      *)
(* returns a record.                                                       *)
(***************************************************************************)
C35_EdgeAndPageAgree ==
    /\ (AfterMiddleware /\ last.path = AdminPath)
       => (last.out = ResponseNext
            <=> ~requireRole(<<Str(<<"admin">>)>>, CookieRead, now).threw)
    /\ (AfterMiddleware /\ last.path = DashboardPath)
       => (last.out = ResponseNext <=> ~verifySession(CookieRead, now).threw)

(***************************************************************************)
(* C37.  A well-formed, unexpired session record is accepted as            *)
(* authenticated by middleware and by verifySession for every userId the   *)
(* data model permits, the number 0 and the empty string included.         *)
(***************************************************************************)
C37_EveryUserIdIsAccepted ==
    /\ (AfterMiddleware /\ IsProtectedPath(last.path)
           /\ UnexpiredRecord(CookieRead, now))
       => last.out # RedirectToLogin(last.path)
    /\ (AfterVerifySession /\ UnexpiredRecord(CookieRead, now))
       => ~last.out.threw

(***************************************************************************)
(* C36.  From any requested path, any cookie and any time, following the   *)
(* redirects of middleware and of the page-level checks reaches a page     *)
(* that is rendered after a bounded number of redirects.  The answer to a  *)
(* request depends on the path, the cookie and the clock only, so a chain  *)
(* ends exactly when it never asks for a path it has asked for before;     *)
(* in particular /login and /dashboard never redirect to each other.       *)
(***************************************************************************)
C36_RedirectChainsEnd ==
    AfterNavigate => last.path \notin last.visited

(***************************************************************************)
(* C38.  When the userId prop of UserProfile changes while earlier fetches *)
(* may still be in flight, the component fetches again, and once every     *)
(* outstanding fetch has completed it is no longer loading and, the fetch  *)
(* for the current userId having succeeded, it shows the user of the       *)
(* current userId: a slower response for an earlier userId never           *)
(* overwrites the result for the current one.                              *)
(***************************************************************************)
C38_LatestUserIdWins ==
    /\ [][profile'.userId # profile.userId
            => \E f \in profile'.fetches \ profile.fetches :
                   f.userId = profile'.userId]_vars
    /\ [](profile.fetches = {}
            => /\ ~profile.loading
               /\ profile.currentResult = "ok"
                    => ProfileView(profile)
                         = [view |-> "user",
                            user |-> UserData(profile.userId)])

====
